---- MODULE Spec2Model ----
(***************************************************************************)
(* CodeMedic chat extension (src/extension.js): the message handler of the *)
(* chat panel, its confirmation gate (pendingFixes), the conversation      *)
(* history and applyFixes, as a state machine.                             *)
(*                                                                         *)
(* A handler of panel.webview.onDidReceiveMessage is an async function: it *)
(* runs synchronously up to an await and resumes later.  One action of the *)
(* model is one such synchronous run: the receipt of a message up to the   *)
(* first await, or the continuation after one await up to the next.        *)
(* Continuations that wait for the host (findFiles, readFile,              *)
(* generateContent, writeFile, the first load of the SDK module) may run   *)
(* in any order with other handlers, new messages and the dispose event.   *)
(* A continuation that waits only for an already settled promise (the      *)
(* client of an SDK that is loaded, a missing API key) is a promise job:   *)
(* it runs before the event loop takes the next event, so every other      *)
(* action is guarded by ~JobsPending.                                      *)
(***************************************************************************)
EXTENDS Integers, Sequences, FiniteSets, TLC

VARIABLES
    currentPanel,   \* TRUE iff a chat panel is open (currentPanel is defined)
    pendingFixes,   \* NULL or the parsed fix object
    history,        \* sequence of [role, text]
    sdk,            \* "unloaded" | "loading" | "loaded": import('@google/genai')
    nmsgs,          \* user messages received so far
    nfix,           \* objects JSON.parse has returned so far (object identity)
    h,              \* the handler invocations in flight, in order of arrival
    writes,         \* <<fix id, entry index>> of the writeFile calls made so far
    rejected,       \* ids of the fix objects a "not applied" notice answered
    ev              \* the step just taken: what it posted, wrote and found

vars == <<currentPanel, pendingFixes, history, sdk, nmsgs, nfix, h, writes,
          rejected, ev>>

-----------------------------------------------------------------------------
(* Bounds of the model *)
MaxMsgs == 2
MaxInflight == 2
MaxFound == 1
MaxRaceMsgs == 3
MaxChatMsgs == 7
MaxChatInflight == 1
MaxWords == 2
MaxSerialMsgs == 3

(* const MAX_TURNS = 6 *)
MAX_TURNS == 6

-----------------------------------------------------------------------------
(* Texts are sequences of one-character strings. *)
Upper == <<"A","B","C","D","E","F","G","H","I","J","K","L","M",
           "N","O","P","Q","R","S","T","U","V","W","X","Y","Z">>
Lower == <<"a","b","c","d","e","f","g","h","i","j","k","l","m",
           "n","o","p","q","r","s","t","u","v","w","x","y","z">>

LowerChar(c) ==
    IF \E i \in 1..26 : Upper[i] = c
    THEN Lower[CHOOSE i \in 1..26 : Upper[i] = c]
    ELSE c

toLowerCase(t) == [i \in 1..Len(t) |-> LowerChar(t[i])]

includes(t, sub) ==
    \E i \in 1..(Len(t) - Len(sub) + 1) : SubSeq(t, i, i + Len(sub) - 1) = sub

K_review  == <<"r","e","v","i","e","w">>
K_analyse == <<"a","n","a","l","y","s","e">>
K_analyze == <<"a","n","a","l","y","z","e">>
K_check   == <<"c","h","e","c","k">>
K_bug     == <<"b","u","g">>
K_issue   == <<"i","s","s","u","e">>
K_fix     == <<"f","i","x">>
K_correct == <<"c","o","r","r","e","c","t">>
K_improve == <<"i","m","p","r","o","v","e">>
K_code    == <<"c","o","d","e">>
K_file    == <<"f","i","l","e">>

(* The classifier with its last two tests grouped the other way. *)
isCodeReviewRequest_Grouped(text) ==
    LET t == toLowerCase(text) IN
       /\ \/ includes(t, K_review)
          \/ includes(t, K_analyse)
          \/ includes(t, K_analyze)
          \/ includes(t, K_check)
          \/ includes(t, K_bug)
          \/ includes(t, K_issue)
          \/ includes(t, K_fix)
          \/ includes(t, K_correct)
          \/ includes(t, K_improve)
          \/ includes(t, K_code)
       /\ includes(t, K_file)

(* isCodeReviewRequest(text) *)
isCodeReviewRequest(text) ==
    LET t == toLowerCase(text) IN
       \/ includes(t, K_review)
       \/ includes(t, K_analyse)
       \/ includes(t, K_analyze)
       \/ includes(t, K_check)
       \/ includes(t, K_bug)
       \/ includes(t, K_issue)
       \/ includes(t, K_fix)
       \/ includes(t, K_correct)
       \/ includes(t, K_improve)
       \/ (includes(t, K_code) /\ includes(t, K_file))

W_yes   == <<"y","e","s">>
W_apply == <<"a","p","p","l","y">>
W_no    == <<"n","o">>

(* ['yes', 'apply'].includes(message.text.toLowerCase()) *)
IsYesOrApply(text) == toLowerCase(text) \in {W_yes, W_apply}

(* message.text.toLowerCase() === 'no' *)
IsNo(text) == toLowerCase(text) = W_no

(* The message texts the user sends. *)
T_Yes    == <<"Y","e","s">>
T_apply  == <<"a","p","p","l","y">>
T_NO     == <<"N","O">>
T_hello  == <<"h","e","l","l","o">>
T_review == <<"R","e","v","i","e","w">>

Texts == {T_Yes, T_apply, T_NO, T_hello, T_review}
ChatTexts == {T_hello}

(* The words the texts given to the classifier are made of, and the texts of
   one to MaxWords of them. *)
Words ==
    {<<"R","e","v","i","e","w">>,
     <<"A","N","A","L","Y","S","E">>,
     <<"a","n","a","l","y","z","e">>,
     <<"C","h","e","c","k">>,
     <<"b","u","g">>,
     <<"I","s","s","u","e">>,
     <<"f","i","x">>,
     <<"C","o","r","r","e","c","t">>,
     <<"i","m","p","r","o","v","e">>,
     <<"c","o","d","e">>,
     <<"F","I","L","E">>,
     <<"y","e","s">>,
     <<"A","P","P","L","Y">>,
     <<"N","o">>,
     <<"h","e","l","l","o">>,
     <<" ">>,
     <<"c","o">>,
     <<"d","e">>}

RECURSIVE Concat(_)
Concat(ws) == IF ws = <<>> THEN <<>> ELSE Head(ws) \o Concat(Tail(ws))

ClassifyTexts ==
    UNION {{Concat(ws) : ws \in [1..n -> Words]} : n \in 1..MaxWords}

-----------------------------------------------------------------------------
(* Values *)
NULL == [tag |-> "null"]

(* The value of a fixedCode member and what JavaScript makes of it. *)
FC_code    == [type |-> "string",    val |-> "console.log(1)"]
FC_empty   == [type |-> "string",    val |-> ""]
FC_missing == [type |-> "undefined", val |-> ""]
FC_number  == [type |-> "number",    val |-> "1"]

typeof(v) == v.type

(* !v *)
Falsy(v) ==
    \/ v.type = "undefined"
    \/ (v.type = "string" /\ v.val = "")
    \/ (v.type = "number" /\ v.val = "0")

(* Paths are sequences of segments. *)
P_a == <<"src", "a.js">>
P_b == <<"b.js">>
(* '/ws/src/a.js', the fsPath the prompt shows for a file, and '../x.js' *)
P_abs == <<"", "ws", "src", "a.js">>
P_up  == <<"..", "x.js">>
WorkspaceUri == <<"ws">>

RECURSIVE Normalize(_, _)
Normalize(done, rest) ==
    IF rest = <<>> THEN done
    ELSE IF Head(rest) \in {"", "."} THEN Normalize(done, Tail(rest))
    ELSE IF Head(rest) = ".." THEN
        Normalize(IF done = <<>> THEN done ELSE SubSeq(done, 1, Len(done) - 1),
                  Tail(rest))
    ELSE Normalize(Append(done, Head(rest)), Tail(rest))

(* vscode.Uri.joinPath(workspaceFolder.uri, file.path): the segments of both
   joined and normalized; empty and '.' segments drop out, '..' drops the
   segment before it. *)
joinPath(base, path) == Normalize(<<>>, base \o path)

Entry(p, c) == [path |-> p, issues |-> <<"x", "y", "z">>, fixedCode |-> c]

L_two     == <<Entry(P_a, FC_code), Entry(P_b, FC_code)>>
L_number  == <<Entry(P_a, FC_code), Entry(P_b, FC_number)>>
L_missing == <<Entry(P_a, FC_missing)>>
L_empty   == <<Entry(P_a, FC_empty)>>
L_paths   == <<Entry(P_abs, FC_code), Entry(P_up, FC_code)>>

FixLists == {L_two, L_number, L_missing, L_empty, L_paths}

(* The text of a review response, as tokens: braces, prose, and the members
   of a JSON object (its files member, when it has one). *)
NoMembers == [has |-> FALSE, list |-> <<>>]
Tok(t)    == [t |-> t, files |-> NoMembers]
LBrace    == Tok("{")
RBrace    == Tok("}")
Prose     == Tok("prose")
Members(list) == [t |-> "members", files |-> [has |-> TRUE, list |-> list]]

R_prose      == <<Prose>>
R_badJson    == <<LBrace, Prose, RBrace>>
R_reversed   == <<RBrace, Prose, LBrace>>
R_noFiles    == <<LBrace, RBrace>>
R_emptyFiles == <<Prose, LBrace, Members(<<>>), RBrace, Prose>>
R_fix(list)  == <<Prose, LBrace, Members(list), RBrace>>

ReviewTexts ==
    {R_prose, R_badJson, R_reversed, R_noFiles, R_emptyFiles} \cup {R_fix(l) : l \in FixLists}

(* A response of ai.models.generateContent: it throws, or it resolves with or
   without candidates[0].content.parts[0].text. *)
Thrown   == [ok |-> FALSE, hasText |-> FALSE, text |-> <<>>]
NoText   == [ok |-> TRUE,  hasText |-> FALSE, text |-> <<>>]
Text(t)  == [ok |-> TRUE,  hasText |-> TRUE,  text |-> t]

ReviewResponses == {Thrown, NoText} \cup {Text(t) : t \in ReviewTexts}

T_ok    == <<"o","k">>
T_sorry == <<"S","o","r","r","y">>
ChatResponses == {Thrown, NoText, Text(T_ok)}

(* text.indexOf('{'), text.lastIndexOf('}'): 0 stands for -1 *)
indexOf(text, tok) ==
    IF \E i \in 1..Len(text) : text[i] = tok
    THEN CHOOSE i \in 1..Len(text) :
            text[i] = tok /\ \A j \in 1..(i - 1) : text[j] # tok
    ELSE 0

lastIndexOf(text, tok) ==
    IF \E i \in 1..Len(text) : text[i] = tok
    THEN CHOOSE i \in 1..Len(text) :
            text[i] = tok /\ \A j \in (i + 1)..Len(text) : text[j] # tok
    ELSE 0

(* extractJson(text): r.ok = FALSE when it throws *)
extractJson(resp) ==
    IF ~resp.hasText THEN [ok |-> FALSE, span |-> <<>>]
    ELSE LET firstBrace == indexOf(resp.text, LBrace)
             lastBrace  == lastIndexOf(resp.text, RBrace)
         IN IF firstBrace = 0 \/ lastBrace = 0
            THEN [ok |-> FALSE, span |-> <<>>]
            ELSE [ok |-> TRUE, span |-> SubSeq(resp.text, firstBrace, lastBrace)]

(* A parser that makes an empty object of what it cannot parse. *)
JSONparse_Lenient(span) ==
    IF Len(span) = 3 /\ span[1] = LBrace /\ span[3] = RBrace
            /\ span[2].t = "members"
    THEN [ok |-> TRUE, files |-> span[2].files]
    ELSE [ok |-> TRUE, files |-> NoMembers]

(* JSON.parse(cleanJson): r.ok = FALSE when it throws *)
JSONparse(span) ==
    IF span = <<LBrace, RBrace>>
    THEN [ok |-> TRUE, files |-> NoMembers]
    ELSE IF Len(span) = 3 /\ span[1] = LBrace /\ span[3] = RBrace
            /\ span[2].t = "members"
    THEN [ok |-> TRUE, files |-> span[2].files]
    ELSE [ok |-> FALSE, files |-> NoMembers]

(* The object JSON.parse returns; id is its identity. *)
FixObject(id, files) ==
    [tag |-> "obj", id |-> id, hasFiles |-> files.has, files |-> files.list]

(* The check without its length test. *)
HasNoFiles_AbsentOnly(obj) == ~obj.hasFiles

(* !pendingFixes.files || pendingFixes.files.length === 0 *)
HasNoFiles(obj) == ~obj.hasFiles \/ Len(obj.files) = 0

(* The test that lets every entry through. *)
InvalidFixedCode_Never(file) == FALSE

(* !file.fixedCode || typeof file.fixedCode !== 'string' *)
InvalidFixedCode(file) ==
    Falsy(file.fixedCode) \/ typeof(file.fixedCode) # "string"

Min(a, b) == IF a < b THEN a ELSE b

(* file.issues.slice(0, 2) *)
FirstTwo(s) == SubSeq(s, 1, Min(2, Len(s)))

(* buildFixSummary(fixes): one line per file, its base name and its first two
   issues *)
buildFixSummary(fixes) ==
    [k \in 1..Len(fixes.files) |->
        [fileName |-> fixes.files[k].path[Len(fixes.files[k].path)],
         issues   |-> FirstTwo(fixes.files[k].issues)]]

(* trimHistory() *)
trimHistory(hist) ==
    LET maxEntries == MAX_TURNS * 2 IN
    IF Len(hist) > maxEntries
    THEN SubSeq(hist, Len(hist) - maxEntries + 1, Len(hist))
    ELSE hist

-----------------------------------------------------------------------------
(* Replies: the calls of panel.webview.postMessage({type: 'botReply', ...}) *)
Reply(kind) ==
    [kind |-> kind, path |-> <<>>, summary |-> <<>>, text |-> <<>>, raw |-> NoText]

ErrorReply(kind)      == Reply(kind)
InvalidReply(path)    == [Reply("error: Invalid fixedCode") EXCEPT !.path = path]
AppliedReply(summary) == [Reply("applied") EXCEPT !.summary = summary]
ChatReply(text)       == [Reply("chat") EXCEPT !.text = text]
RawReply(resp)        == [Reply("raw") EXCEPT !.raw = resp]

NoHandler ==
    [text |-> <<>>, stale |-> FALSE, key |-> FALSE, pc |-> "none", data |-> NULL,
     i |-> 0, nfiles |-> 0, nread |-> 0, pendRecv |-> FALSE, hist0 |-> <<>>]

(* The handler invocation of a message, at `await getGeminiClient()`. *)
Handler(text, key) ==
    [NoHandler EXCEPT !.text = text, !.key = key, !.pc = "client",
                      !.pendRecv = pendingFixes # NULL, !.hist0 = history]

(* The record of a step of handler hd (NoHandler: a step of no handler). *)
Event(hd, act, branch) ==
    [act      |-> act,
     branch   |-> branch,
     text     |-> hd.text,
     stale    |-> hd.stale,
     pendRecv |-> hd.pendRecv,
     hist0    |-> hd.hist0,
     pend0    |-> pendingFixes,
     replies  |-> <<>>,
     wrote    |-> <<>>,
     resp     |-> NoText,
     data     |-> NULL,
     i        |-> 0,
     contents |-> 0,
     found    |-> -1,
     failed   |-> 0,
     trimmed  |-> 0,
     done     |-> FALSE]

Without(k) == SubSeq(h, 1, k - 1) \o SubSeq(h, k + 1, Len(h))

(* A handler whose await of getGeminiClient() is settled: the API key is
   missing (it threw before the import) or the SDK module is loaded. *)
IsJob(k) == h[k].pc = "client" /\ (~h[k].key \/ sdk = "loaded")

JobsPending == \E k \in 1..Len(h) : IsJob(k)

NextJob(k) == IsJob(k) /\ \A j \in 1..(k - 1) : ~IsJob(j)

-----------------------------------------------------------------------------
Init ==
    /\ currentPanel = FALSE
    /\ pendingFixes = NULL
    /\ history = <<>>
    /\ sdk = "unloaded"
    /\ nmsgs = 0
    /\ nfix = 0
    /\ h = <<>>
    /\ writes = {}
    /\ rejected = {}
    /\ ev = Event(NoHandler, "init", "none")

(* codemedic.openChat, with no panel open and an API key configured: a new
   panel.  (With a panel open it only reveals it; with no key it only warns.) *)
OpenChat ==
    /\ ~JobsPending
    /\ ~currentPanel
    /\ currentPanel' = TRUE
    /\ ev' = Event(NoHandler, "open", "none")
    /\ UNCHANGED <<pendingFixes, history, sdk, nmsgs, nfix, h, writes, rejected>>

(* panel.onDidDispose; the handlers in flight keep the disposed panel. *)
Dispose ==
    /\ ~JobsPending
    /\ currentPanel
    /\ currentPanel' = FALSE
    /\ history' = <<>>
    /\ h' = [k \in 1..Len(h) |-> [h[k] EXCEPT !.stale = TRUE]]
    /\ ev' = Event(NoHandler, "dispose", "none")
    /\ UNCHANGED <<pendingFixes, sdk, nmsgs, nfix, writes, rejected>>

(* The webview of the open panel posts {type: 'userMessage', text}: the
   handler runs up to `await getGeminiClient()`, which reads the API key and,
   with a key, starts import('@google/genai'). *)
Receive(text, key, cap, conc) ==
    /\ ~JobsPending
    /\ currentPanel
    /\ nmsgs < cap
    /\ Len(h) < conc
    /\ nmsgs' = nmsgs + 1
    /\ h' = Append(h, Handler(text, key))
    /\ sdk' = IF key /\ sdk = "unloaded" THEN "loading" ELSE sdk
    /\ ev' = Event(Handler(text, key), "receive", "none")
    /\ UNCHANGED <<currentPanel, pendingFixes, history, nfix, writes, rejected>>

(* The first import('@google/genai') resolves. *)
ImportDone ==
    /\ ~JobsPending
    /\ sdk = "loading"
    /\ sdk' = "loaded"
    /\ ev' = Event(NoHandler, "import", "none")
    /\ UNCHANGED <<currentPanel, pendingFixes, history, nmsgs, nfix, h, writes,
                   rejected>>

(* The handler leaves through `catch (err)` or a return: one last reply. *)
Finish(k, e, reply) ==
    /\ h' = Without(k)
    /\ ev' = [e EXCEPT !.replies = Append(e.replies, reply), !.done = TRUE]

(* getGeminiClient() threw: no API key. *)
RouteAuthError(k) ==
    /\ NextJob(k)
    /\ ~h[k].key
    /\ Finish(k, Event(h[k], "route", "auth"), ErrorReply("error: API key is not set"))
    /\ UNCHANGED <<currentPanel, pendingFixes, history, sdk, nmsgs, nfix, writes,
                   rejected>>

(* isCodeReviewRequest(message.text): 'Checking your code', then
   readWorkspaceFiles() up to `await findFiles` *)
RouteReview(k) ==
    /\ NextJob(k)
    /\ h[k].key
    /\ isCodeReviewRequest(h[k].text)
    /\ h' = [h EXCEPT ![k].pc = "findFiles"]
    /\ ev' = [Event(h[k], "route", "review") EXCEPT !.replies = <<Reply("checking")>>]
    /\ UNCHANGED <<currentPanel, pendingFixes, history, sdk, nmsgs, nfix, writes,
                   rejected>>

(* The gates without their test of the text. *)
GateApply_AnyText(text) == pendingFixes # NULL
GateNo_AnyText(text) == pendingFixes # NULL

(* pendingFixes && ['yes', 'apply'].includes(message.text.toLowerCase()) *)
GateApply(text) == pendingFixes # NULL /\ IsYesOrApply(text)

(* pendingFixes && message.text.toLowerCase() === 'no' *)
GateNo(text) == pendingFixes # NULL /\ IsNo(text)

(* The call of vscode.workspace.fs.writeFile for entry i of data. *)
WriteCall(data, i) ==
    [fix     |-> data.id,
     idx     |-> i,
     uri     |-> joinPath(WorkspaceUri, data.files[i].path),
     content |-> data.files[i].fixedCode.val,
     dup     |-> <<data.id, i>> \in writes,
     late    |-> data.id \in rejected]

(* applyFixes(data) from entry i up to its next await, and, when the loop is
   over, the rest of the yes/apply branch: buildFixSummary(pendingFixes), the
   'Fixes applied successfully' reply, pendingFixes = null. *)
ApplyLoop(k, data, i, e) ==
    IF i > Len(data.files) THEN
        IF pendingFixes = NULL THEN
            /\ Finish(k, [e EXCEPT !.data = data], ErrorReply("error: TypeError"))
            /\ UNCHANGED <<pendingFixes, writes>>
        ELSE
            /\ Finish(k, [e EXCEPT !.data = data],
                      AppliedReply(buildFixSummary(pendingFixes)))
            /\ pendingFixes' = NULL
            /\ UNCHANGED writes
    ELSE IF InvalidFixedCode(data.files[i]) THEN
        /\ Finish(k, [e EXCEPT !.data = data, !.i = i],
                  InvalidReply(data.files[i].path))
        /\ UNCHANGED <<pendingFixes, writes>>
    ELSE
        /\ h' = [h EXCEPT ![k].pc = "write", ![k].data = data, ![k].i = i]
        /\ ev' = [e EXCEPT !.data = data, !.i = i, !.wrote = <<WriteCall(data, i)>>]
        /\ writes' = writes \cup {<<data.id, i>>}
        /\ UNCHANGED pendingFixes

(* The yes/apply branch: applyFixes(pendingFixes) up to its first await;
   folder is whether vscode.workspace.workspaceFolders?.[0] exists. *)
RouteApply(k, folder) ==
    /\ NextJob(k)
    /\ h[k].key
    /\ ~isCodeReviewRequest(h[k].text)
    /\ GateApply(h[k].text)
    /\ IF ~folder
       THEN /\ Finish(k, Event(h[k], "route", "apply"),
                      ErrorReply("error: No workspace folder found"))
            /\ UNCHANGED <<pendingFixes, writes>>
       ELSE ApplyLoop(k, pendingFixes, 1, Event(h[k], "route", "apply"))
    /\ UNCHANGED <<currentPanel, history, sdk, nmsgs, nfix, rejected>>

(* await vscode.workspace.fs.writeFile(...) settles. *)
WriteFileDone(k, ok) ==
    /\ ~JobsPending
    /\ h[k].pc = "write"
    /\ IF ok
       THEN ApplyLoop(k, h[k].data, h[k].i + 1, Event(h[k], "write", "apply"))
       ELSE /\ Finish(k, [Event(h[k], "write", "apply") EXCEPT
                                !.data = h[k].data, !.failed = h[k].i],
                      ErrorReply("error: write failed"))
            /\ UNCHANGED <<pendingFixes, writes>>
    /\ UNCHANGED <<currentPanel, history, sdk, nmsgs, nfix, rejected>>

(* The no branch without its pendingFixes = null. *)
RouteNo_KeepsPending(k) ==
    /\ NextJob(k)
    /\ h[k].key
    /\ ~isCodeReviewRequest(h[k].text)
    /\ ~GateApply(h[k].text)
    /\ GateNo(h[k].text)
    /\ rejected' = rejected \cup {pendingFixes.id}
    /\ Finish(k, Event(h[k], "route", "no"), Reply("notApplied"))
    /\ UNCHANGED <<currentPanel, pendingFixes, history, sdk, nmsgs, nfix, writes>>

(* The no branch. *)
RouteNo(k) ==
    /\ NextJob(k)
    /\ h[k].key
    /\ ~isCodeReviewRequest(h[k].text)
    /\ ~GateApply(h[k].text)
    /\ GateNo(h[k].text)
    /\ pendingFixes' = NULL
    /\ rejected' = rejected \cup {pendingFixes.id}
    /\ Finish(k, Event(h[k], "route", "no"), Reply("notApplied"))
    /\ UNCHANGED <<currentPanel, history, sdk, nmsgs, nfix, writes>>

(* Normal chat mode: history.push(user), generateContent({contents: history}) *)
RouteChat(k) ==
    /\ NextJob(k)
    /\ h[k].key
    /\ ~isCodeReviewRequest(h[k].text)
    /\ ~GateApply(h[k].text)
    /\ ~GateNo(h[k].text)
    /\ history' = Append(history, [role |-> "user", text |-> h[k].text])
    /\ h' = [h EXCEPT ![k].pc = "chatGen"]
    /\ ev' = [Event(h[k], "route", "chat") EXCEPT !.contents = Len(history) + 1]
    /\ UNCHANGED <<currentPanel, pendingFixes, sdk, nmsgs, nfix, writes, rejected>>

(* result.candidates?.[0]?.content?.parts?.[0]?.text || 'Sorry, ...' *)
ChatReplyText(resp) ==
    IF resp.hasText /\ resp.text # <<>> THEN resp.text ELSE T_sorry

(* The chat generateContent settles: history.push(model), trimHistory(),
   the reply; or it throws. *)
ChatGenerateDone(k, resp) ==
    /\ ~JobsPending
    /\ h[k].pc = "chatGen"
    /\ IF resp.ok
       THEN /\ history' = trimHistory(
                    Append(history, [role |-> "model", text |-> ChatReplyText(resp)]))
            /\ Finish(k, [Event(h[k], "generate", "chat") EXCEPT
                                !.resp = resp,
                                !.trimmed = Len(history) + 1 - Len(history')],
                      ChatReply(ChatReplyText(resp)))
       ELSE /\ Finish(k, [Event(h[k], "generate", "chat") EXCEPT !.resp = resp],
                      ErrorReply("error: upstream"))
            /\ UNCHANGED history
    /\ UNCHANGED <<currentPanel, pendingFixes, sdk, nmsgs, nfix, writes, rejected>>

(* uris.slice(0, 10) *)
SnapshotLimit == 10

(* The test without its return. *)
NoFiles_Never(n) == FALSE

(* files.length === 0, of the n files readWorkspaceFiles returns *)
NoFiles(n) == n = 0

(* findFiles settles with n uris; readWorkspaceFiles reads the first of them,
   or returns no file: 'Reviewing workspace files...', 'No supported code
   files found in this workspace.' *)
FindFilesDone(k, n) ==
    /\ ~JobsPending
    /\ h[k].pc = "findFiles"
    /\ IF NoFiles(n)
       THEN Finish(k, [Event(h[k], "findFiles", "review") EXCEPT
                            !.replies = <<Reply("reviewing")>>, !.found = n],
                   Reply("noFiles"))
       ELSE /\ h' = [h EXCEPT ![k].pc = "readFile",
                              ![k].nfiles = Min(n, SnapshotLimit),
                              ![k].nread = 0]
            /\ ev' = [Event(h[k], "findFiles", "review") EXCEPT !.found = n]
    /\ UNCHANGED <<currentPanel, pendingFixes, history, sdk, nmsgs, nfix, writes,
                   rejected>>

(* readFile settles: the next file is read, or, after the last one,
   'Reviewing workspace files...', buildReviewPrompt and generateContent. *)
ReadFileDone(k, ok) ==
    /\ ~JobsPending
    /\ h[k].pc = "readFile"
    /\ IF ~ok
       THEN Finish(k, Event(h[k], "readFile", "review"), ErrorReply("error: read failed"))
       ELSE IF h[k].nread + 1 < h[k].nfiles
       THEN /\ h' = [h EXCEPT ![k].nread = h[k].nread + 1]
            /\ ev' = Event(h[k], "readFile", "review")
       ELSE /\ h' = [h EXCEPT ![k].nread = h[k].nread + 1, ![k].pc = "reviewGen"]
            /\ ev' = [Event(h[k], "readFile", "review") EXCEPT
                        !.replies = <<Reply("reviewing")>>, !.contents = 1]
    /\ UNCHANGED <<currentPanel, pendingFixes, history, sdk, nmsgs, nfix, writes,
                   rejected>>

(* pendingFixes = JSON.parse(cleanJson); if it has no files, pendingFixes = null *)
ReviewStore(obj) == IF HasNoFiles(obj) THEN NULL ELSE obj

(* The review generateContent settles: extractJson, JSON.parse, the gate. *)
ReviewGenerateDone(k, resp) ==
    /\ ~JobsPending
    /\ h[k].pc = "reviewGen"
    /\ LET e      == [Event(h[k], "generate", "review") EXCEPT !.resp = resp]
           clean  == extractJson(resp)
           parsed == JSONparse(clean.span)
           obj    == FixObject(nfix + 1, parsed.files)
       IN IF ~resp.ok
          THEN /\ Finish(k, e, ErrorReply("error: upstream"))
               /\ UNCHANGED <<pendingFixes, nfix>>
          ELSE IF ~clean.ok \/ ~parsed.ok
          THEN /\ Finish(k, e, RawReply(resp))
               /\ UNCHANGED <<pendingFixes, nfix>>
          ELSE /\ pendingFixes' = ReviewStore(obj)
               /\ nfix' = nfix + 1
               /\ Finish(k, e, IF HasNoFiles(obj) THEN Reply("noIssues")
                                                  ELSE Reply("prepared"))
    /\ UNCHANGED <<currentPanel, history, sdk, nmsgs, writes, rejected>>

-----------------------------------------------------------------------------
Next ==
    \/ OpenChat
    \/ Dispose
    \/ \E t \in Texts, key \in BOOLEAN : Receive(t, key, MaxMsgs, MaxInflight)
    \/ ImportDone
    \/ \E k \in 1..Len(h) : RouteAuthError(k)
    \/ \E k \in 1..Len(h) : RouteReview(k)
    \/ \E k \in 1..Len(h), folder \in BOOLEAN : RouteApply(k, folder)
    \/ \E k \in 1..Len(h) : RouteNo(k)
    \/ \E k \in 1..Len(h) : RouteChat(k)
    \/ \E k \in 1..Len(h), n \in 0..MaxFound : FindFilesDone(k, n)
    \/ \E k \in 1..Len(h), ok \in BOOLEAN : ReadFileDone(k, ok)
    \/ \E k \in 1..Len(h), r \in ReviewResponses : ReviewGenerateDone(k, r)
    \/ \E k \in 1..Len(h), r \in ChatResponses : ChatGenerateDone(k, r)
    \/ \E k \in 1..Len(h), ok \in BOOLEAN : WriteFileDone(k, ok)

Spec == Init /\ [][Next]_vars

(* The same handlers over one more message: the interleavings of a review, a
   confirmation and a third message. *)
NextRace ==
    \/ OpenChat
    \/ Dispose
    \/ \E t \in Texts, key \in BOOLEAN : Receive(t, key, MaxRaceMsgs, MaxInflight)
    \/ ImportDone
    \/ \E k \in 1..Len(h) : RouteAuthError(k)
    \/ \E k \in 1..Len(h) : RouteReview(k)
    \/ \E k \in 1..Len(h), folder \in BOOLEAN : RouteApply(k, folder)
    \/ \E k \in 1..Len(h) : RouteNo(k)
    \/ \E k \in 1..Len(h) : RouteChat(k)
    \/ \E k \in 1..Len(h), n \in 0..MaxFound : FindFilesDone(k, n)
    \/ \E k \in 1..Len(h), ok \in BOOLEAN : ReadFileDone(k, ok)
    \/ \E k \in 1..Len(h), r \in ReviewResponses : ReviewGenerateDone(k, r)
    \/ \E k \in 1..Len(h), r \in ChatResponses : ChatGenerateDone(k, r)
    \/ \E k \in 1..Len(h), ok \in BOOLEAN : WriteFileDone(k, ok)

SpecRace == Init /\ [][NextRace]_vars

(* The chat path alone, over more messages. *)
NextChat ==
    \/ OpenChat
    \/ Dispose
    \/ \E t \in ChatTexts, key \in BOOLEAN :
            Receive(t, key, MaxChatMsgs, MaxChatInflight)
    \/ ImportDone
    \/ \E k \in 1..Len(h) : RouteAuthError(k)
    \/ \E k \in 1..Len(h) : RouteChat(k)
    \/ \E k \in 1..Len(h), r \in ChatResponses : ChatGenerateDone(k, r)

SpecChat == Init /\ [][NextChat]_vars

(* The handlers with the user waiting for the end of one message's handling
   before sending the next: one handler in flight. *)
NextSerial ==
    \/ OpenChat
    \/ Dispose
    \/ \E t \in Texts, key \in BOOLEAN : Receive(t, key, MaxSerialMsgs, 1)
    \/ ImportDone
    \/ \E k \in 1..Len(h) : RouteAuthError(k)
    \/ \E k \in 1..Len(h) : RouteReview(k)
    \/ \E k \in 1..Len(h), folder \in BOOLEAN : RouteApply(k, folder)
    \/ \E k \in 1..Len(h) : RouteNo(k)
    \/ \E k \in 1..Len(h) : RouteChat(k)
    \/ \E k \in 1..Len(h), n \in 0..MaxFound : FindFilesDone(k, n)
    \/ \E k \in 1..Len(h), ok \in BOOLEAN : ReadFileDone(k, ok)
    \/ \E k \in 1..Len(h), r \in ReviewResponses : ReviewGenerateDone(k, r)
    \/ \E k \in 1..Len(h), r \in ChatResponses : ChatGenerateDone(k, r)
    \/ \E k \in 1..Len(h), ok \in BOOLEAN : WriteFileDone(k, ok)

SpecSerial == Init /\ [][NextSerial]_vars

(* isCodeReviewRequest(message.text) alone, line 168, over more texts: one
   text a behavior. *)
Classify(text) ==
    /\ ev.act = "init"
    /\ ev' = [Event(NoHandler, "classify",
                    IF isCodeReviewRequest(text) THEN "review" ELSE "chat")
                EXCEPT !.text = text]
    /\ UNCHANGED <<currentPanel, pendingFixes, history, sdk, nmsgs, nfix, h,
                   writes, rejected>>

NextClassify == \E t \in ClassifyTexts : Classify(t)

SpecClassify == Init /\ [][NextClassify]_vars

-----------------------------------------------------------------------------
(* C1: every call of the file-write capability is made by the handler of a
   message whose text is, ignoring case, "yes" or "apply", received while a
   fix object was pending, and writes an entry of an object that an earlier
   review produced. *)
C1_WriteOnlyOnConfirmation ==
    ev.wrote # <<>> =>
        /\ ev.branch = "apply"
        /\ toLowerCase(ev.text) \in {W_yes, W_apply}
        /\ ev.pendRecv
        /\ ev.wrote[1].fix \in 1..nfix
        /\ ev.data.files[ev.wrote[1].idx].fixedCode.val = ev.wrote[1].content

(* C1 witness: the second entry of a confirmed fix object is written. *)
C1_Witness ==
    /\ ev.wrote # <<>>
    /\ ev.act = "write"
    /\ ev.wrote[1].idx = 2
    /\ ev.pendRecv

(* C2: when applying the pending fix object fails, the error is reported and
   the gate is Idle once the handler of that "yes"/"apply" has finished. *)
C2_FailedApplyClearsPending ==
    (/\ ev.branch = "apply"
     /\ ev.done
     /\ ev.replies[Len(ev.replies)].kind # "applied")
        => pendingFixes = NULL

(* C3: the history never holds more than 2 * MAX_TURNS entries, and neither
   does the contents passed to generateContent. *)
C3_HistoryBounded ==
    /\ Len(history) <= 2 * MAX_TURNS
    /\ ev.contents <= 2 * MAX_TURNS

(* C4: when the model call of a chat turn fails (no API key, or
   generateContent throws), the history after the error reply is the history
   before the message was received. *)
C4_FailedTurnNotAppended ==
    (/\ ev.done
     /\ \/ ev.branch = "auth"
        \/ (ev.branch = "chat" /\ ev.act = "generate" /\ ~ev.resp.ok))
        => history = ev.hist0

(* C5: a "no" received while a fix object is pending makes the gate Idle,
   sends the "not applied" notice and writes nothing; and no entry of that
   object is written once the notice has been sent. *)
C5_NoWriteAfterRejection ==
    /\ ev.branch = "no" =>
          /\ pendingFixes = NULL
          /\ ev.replies = <<Reply("notApplied")>>
          /\ ev.wrote = <<>>
    /\ ev.wrote # <<>> => ~ev.wrote[1].late

(* C6: a pending fix object stops being pending only by its successful full
   application, by a "no", or by the end of the session; a review handled
   while it is pending does not clear it. *)
C6_PendingClearedOnlyByGate ==
    (ev.pend0 # NULL /\ pendingFixes # ev.pend0) =>
        \/ /\ ev.branch = "apply"
           /\ ev.done
           /\ ev.replies[Len(ev.replies)].kind = "applied"
           /\ ev.data = ev.pend0
        \/ ev.branch = "no"
        \/ ev.act = "dispose"

(* C7: once the panel is disposed, and until a new one is opened, the history
   and the pending fix state are empty, also when a handler of the closed
   session finishes after the close. *)
C7_ClosedSessionIsEmpty ==
    ~currentPanel => (history = <<>> /\ pendingFixes = NULL)

(* C8: a fix object whose files are absent or empty is never pending between
   handler steps, and a response that parses to one moves no Idle gate to
   AwaitingConfirmation. *)
C8_NoEmptyFixSetPending ==
    /\ pendingFixes # NULL =>
          (pendingFixes.hasFiles /\ Len(pendingFixes.files) >= 1)
    /\ (/\ ev.act = "generate"
        /\ ev.branch = "review"
        /\ ev.resp.ok
        /\ extractJson(ev.resp).ok
        /\ LET parsed == JSONparse(extractJson(ev.resp).span)
           IN parsed.ok /\ (~parsed.files.has \/ parsed.files.list = <<>>))
          => pendingFixes = NULL

(* C8 witness: a review answered "prefix {"files":[]} suffix" has just been
   handled from Idle, and nothing is pending. *)
C8_Witness ==
    /\ ev.act = "generate"
    /\ ev.branch = "review"
    /\ ev.resp = Text(R_emptyFiles)
    /\ ev.pend0 = NULL
    /\ ev.replies = <<Reply("noIssues")>>
    /\ pendingFixes = NULL

(* C9: while a fix object is pending, a message that is no review request and
   is not "yes", "apply" or "no" (ignoring case) is handled as a chat turn,
   and no step of a chat turn changes the pending fix object, whether its
   model call succeeds or fails. *)
C9_ChatTurnKeepsPending ==
    /\ (/\ ev.act = "route"
        /\ ev.branch # "auth"
        /\ ev.pend0 # NULL
        /\ ~isCodeReviewRequest(ev.text)
        /\ toLowerCase(ev.text) \notin {W_yes, W_apply, W_no})
          => (ev.branch = "chat" /\ ev.contents = Len(history))
    /\ (ev.branch = "chat" /\ ev.pend0 # NULL) => pendingFixes = ev.pend0

(* C9 witness: a chat turn received while a fix object was pending has failed
   and the same object is still pending. *)
C9_Witness ==
    /\ ev.act = "generate"
    /\ ev.branch = "chat"
    /\ ev.done
    /\ ~ev.resp.ok
    /\ ev.pendRecv
    /\ ev.pend0 # NULL
    /\ pendingFixes = ev.pend0

(* C10: apply fails with the invalid-payload error naming the entry's path
   exactly when the entry's fixedCode is missing or is not text; an entry
   whose fixedCode is a string, the empty string included, is written as the
   full content of root/path. *)
C10_InvalidExactlyWhenNotText ==
    (ev.branch = "apply" /\ ev.i > 0) =>
        LET file == ev.data.files[ev.i] IN
        /\ (ev.done /\ ev.replies[Len(ev.replies)] = InvalidReply(file.path))
              <=> (file.fixedCode.type # "string")
        /\ file.fixedCode.type = "string" =>
              /\ ev.wrote # <<>>
              /\ ev.wrote[1].uri = joinPath(WorkspaceUri, file.path)
              /\ ev.wrote[1].content = file.fixedCode.val

(* C11: when generateContent resolves without candidates[0].content.parts[0]
   .text, the reply of the chat branch is the fallback text, and no branch
   posts a reply whose text is the missing value. *)
C11_MissingTextGetsFallback ==
    (ev.act = "generate" /\ ev.resp.ok /\ ~ev.resp.hasText) =>
        /\ ev.branch = "chat" => ev.replies = <<ChatReply(T_sorry)>>
        /\ \A j \in 1..Len(ev.replies) :
              ev.replies[j].kind = "raw" => ev.replies[j].raw.hasText

(* C12: every call of writeFile targets a location under the workspace folder
   uri, whatever the path of the entry: relative, absolute, or with '..'
   segments. *)
C12_WritesUnderRoot ==
    ev.wrote # <<>> =>
        LET uri == ev.wrote[1].uri IN
        /\ Len(uri) > Len(WorkspaceUri)
        /\ SubSeq(uri, 1, Len(WorkspaceUri)) = WorkspaceUri

(* C13: isCodeReviewRequest(text) holds exactly when the lower-cased text
   contains one of review, analyse, analyze, check, bug, issue, fix, correct,
   improve, or contains both code and file; so "yes", "apply" and "no", in
   any letter case, are not review requests. *)
C13_ClassifierRule ==
    ev.act = "classify" =>
        LET t == toLowerCase(ev.text)
            keyword == \E w \in {K_review, K_analyse, K_analyze, K_check, K_bug,
                                 K_issue, K_fix, K_correct, K_improve} :
                            includes(t, w)
            both == includes(t, K_code) /\ includes(t, K_file)
        IN /\ (ev.branch = "review") <=> (keyword \/ both)
           /\ t \in {W_yes, W_apply, W_no} => ev.branch = "chat"

(* C13 witness: "codeFILE", which has no keyword but both code and file, is
   classified a review request. *)
C13_Witness ==
    /\ ev.act = "classify"
    /\ ev.text = <<"c","o","d","e","F","I","L","E">>
    /\ ev.branch = "review"

(* C14: when findFiles yields no file for a review request, the handler posts
   'No supported code files found' and returns without calling
   generateContent, and no step of the handler up to there changes
   pendingFixes or the history. *)
C14_NoFilesNoGenerate ==
    [][/\ (ev'.act = "findFiles" /\ ev'.found = 0) =>
             /\ ev'.done
             /\ ev'.replies = <<Reply("reviewing"), Reply("noFiles")>>
             /\ Len(h') = Len(h) - 1
       /\ (ev'.branch = "review" /\ ev'.act \in {"route", "findFiles"}) =>
             /\ ev'.contents = 0
             /\ pendingFixes' = pendingFixes
             /\ history' = history]_vars

(* C14 witness: a review request found no file while a fix object was
   pending, and the object is still pending. *)
C14_Witness ==
    /\ ev.act = "findFiles"
    /\ ev.found = 0
    /\ ev.done
    /\ ev.pend0 # NULL
    /\ pendingFixes = ev.pend0

(* C15: when applyFixes fails on entry k, because its fixedCode is unusable
   or because its writeFile rejects, the handler ends there with an error
   reply and not the 'Fixes applied successfully' summary; writeFile has been
   called for the entries 1..k-1 and those calls stand; no later step of the
   handler writes, and behind an unusable entry k no entry k..n is written. *)
C15_PartialApplyOnFailure ==
    (ev.branch = "apply" /\ ev.data # NULL) =>
        LET files    == ev.data.files
            unusable == /\ ev.i > 0
                        /\ \/ files[ev.i].fixedCode.type # "string"
                           \/ files[ev.i].fixedCode.val = ""
            k        == IF ev.failed > 0 THEN ev.failed ELSE ev.i
        IN (unusable \/ ev.failed > 0) =>
              /\ ev.done
              /\ ev.replies # <<>>
              /\ ev.replies[Len(ev.replies)].kind
                    \in {"error: Invalid fixedCode", "error: write failed"}
              /\ \A j \in 1..Len(ev.replies) : ev.replies[j].kind # "applied"
              /\ ev.wrote = <<>>
              /\ \A j \in 1..(k - 1) : <<ev.data.id, j>> \in writes
              /\ unusable =>
                    \A j \in k..Len(files) : <<ev.data.id, j>> \notin writes

(* C15 witness: the apply of a two-entry object has failed on entry 2, after
   the write of entry 1. *)
C15_Witness ==
    /\ ev.branch = "apply"
    /\ ev.done
    /\ ev.i = 2
    /\ ev.replies = <<InvalidReply(P_b)>>
    /\ <<ev.data.id, 1>> \in writes
    /\ <<ev.data.id, 2>> \notin writes

(* C16: when trimHistory removes entries, it removes an even number of them,
   and the history it leaves starts with a user entry and alternates user,
   model; also after chat turns whose model call failed. *)
C16_TrimKeepsPairs ==
    ev.trimmed > 0 =>
        /\ ev.trimmed % 2 = 0
        /\ \A j \in 1..Len(history) :
              history[j].role = (IF j % 2 = 1 THEN "user" ELSE "model")

(* C17: when the text of the review response has no '{' ... '}' span, or its
   span is not JSON, the handler ends with one reply, the response text as it
   came, and pendingFixes is what it was: NULL, or the object pending
   before. *)
C17_UnparsedReviewIsRaw ==
    (/\ ev.act = "generate"
     /\ ev.branch = "review"
     /\ ev.resp \in {Text(R_prose), Text(R_badJson), Text(R_reversed)})
        => /\ ev.done
           /\ ev.replies = <<[Reply("raw") EXCEPT !.raw = ev.resp]>>
           /\ pendingFixes = ev.pend0

(* C17 witness: a review answered '{ prose }' while a fix object was pending
   has posted that text, and the object is still pending. *)
C17_Witness ==
    /\ ev.act = "generate"
    /\ ev.branch = "review"
    /\ ev.resp = Text(R_badJson)
    /\ ev.replies = <<RawReply(Text(R_badJson))>>
    /\ ev.pend0 # NULL
    /\ pendingFixes = ev.pend0

(* C18: the handler of a "no" leaves pendingFixes NULL, and a "no" that finds
   pendingFixes NULL, as the second of two in a row does, is a chat turn: it
   is pushed on the history and the history is sent to generateContent; no
   step of it posts the 'not applied' notice, writes a file or changes
   pendingFixes. *)
C18_SecondNoIsChat ==
    /\ ev.branch = "no" => pendingFixes = NULL
    /\ (/\ ev.act = "route"
        /\ ev.branch # "auth"
        /\ toLowerCase(ev.text) = W_no
        /\ ev.pend0 = NULL)
          => /\ ev.branch = "chat"
             /\ history # <<>>
             /\ history[Len(history)] = [role |-> "user", text |-> ev.text]
             /\ ev.contents = Len(history)
    /\ (ev.branch = "chat" /\ toLowerCase(ev.text) = W_no)
          => /\ \A j \in 1..Len(ev.replies) : ev.replies[j].kind # "notApplied"
             /\ ev.wrote = <<>>
             /\ pendingFixes = ev.pend0

(* C18 witness: after the 'not applied' notice for a fix object, a "NO" that
   found nothing pending has been answered by the model as a chat turn. *)
C18_Witness ==
    /\ rejected # {}
    /\ ev.act = "generate"
    /\ ev.branch = "chat"
    /\ toLowerCase(ev.text) = W_no
    /\ ev.replies = <<ChatReply(T_ok)>>
    /\ ev.pend0 = NULL
    /\ pendingFixes = NULL
    /\ writes = {}

(* C19: no entry of a fix object is written twice: writeFile is never called
   for an entry of an object for which it was called before, in any
   interleaving of the handlers. *)
C19_EntryWrittenOnce ==
    ev.wrote # <<>> => ~ev.wrote[1].dup

(* C20: the 'Fixes applied successfully' reply summarizes the object whose
   entries this apply wrote, one line per written file, and the object that
   stops being pending with it is that object, in any interleaving of the
   handlers. *)
C20_SummaryOfWhatWasWritten ==
    (/\ ev.branch = "apply"
     /\ ev.replies # <<>>
     /\ ev.replies[Len(ev.replies)].kind = "applied")
        => /\ ev.replies[Len(ev.replies)].summary = buildFixSummary(ev.data)
           /\ Len(ev.replies[Len(ev.replies)].summary) = Len(ev.data.files)
           /\ \A j \in 1..Len(ev.data.files) : <<ev.data.id, j>> \in writes
           /\ ev.pend0 = ev.data
           /\ pendingFixes = NULL

====
